---- MODULE Spec2Model ----
(***************************************************************************)
(* Model of the RAG ingestor: the transactional reconciliation engine      *)
(* (_process_database_transaction, _validate_table_exists) and the         *)
(* connection layer (_get_db_engine of func.py, initialize_dependencies    *)
(* and get_db_engine of main.py).                                          *)
(***************************************************************************)
EXTENDS Integers, Sequences, FiniteSets, TLC

(***************************************************************************)
(* Bounds of the model.                                                    *)
(***************************************************************************)
\* Calls into the connection layer in one run of the process.
MaxCalls == 3
\* Longest chunks_to_upsert list a payload carries.
MaxChunks == 2
\* The same for each of two reconciliations that run at the same time.
MaxSessionChunks == 1
\* The insert loop's batch_size.  The code fixes it at 500 (main.py:296,
\* func.py:228); the model scales it down so that a list of MaxChunks
\* records is split into more than one batch.
batch_size == 1
\* The pool's pool_size and max_overflow.  The code sets 5 and 10 (main.py:213,
\* func.py:127); the model scales them down so that the few invocations of a
\* run can fill a pool.
pool_size == 1
max_overflow == 1

(***************************************************************************)
(* Input alphabets.                                                        *)
(***************************************************************************)
Ids == {"1", "2", "3"}
Sources == {"a.py", "b.py"}
\* A chunk whose metadata has no "source" key.
NoSource == "<missing>"
\* document values of a chunk: "" stands for a missing or empty document.
Docs == {"", "new"}
\* content of the rows the table may hold before the first call.
OldDoc == "old"

Prefix == <<"c","o","d","e","b","a","s","e","_","c","o","l","l","e","c","t","i","o","n","_">>
NameGood == Prefix \o <<"x">>
NameAbsent == Prefix \o <<"y", "_", "9">>
NameInject == Prefix \o <<"x", ";", " ", "-">>
NameNoPrefix == <<"u", "s", "e", "r", "s">>
NameNewline == Prefix \o <<"x", "\n">>
NameEmpty == <<>>
NameAllowed == <<"m","y","_","r","a","g","_","d","o","c","u","m","e","n","t","s">>
TableNames == {NameGood, NameAbsent, NameInject, NameNoPrefix, NameNewline, NameEmpty, NameAllowed}

\* Tables that exist in schema public of the database.
ExistingTables == {NameGood, NameAllowed}

\* func.py: ALLOWED_TABLES = {'my_rag_documents'}
ALLOWED_TABLES == {NameAllowed}

(***************************************************************************)
(* Pure helpers of the transaction.                                        *)
(***************************************************************************)
Lower == {"a","b","c","d","e","f","g","h","i","j","k","l","m","n","o","p","q","r","s","t","u","v","w","x","y","z"}
Upper == {"A","B","C","D","E","F","G","H","I","J","K","L","M","N","O","P","Q","R","S","T","U","V","W","X","Y","Z"}
Digit == {"0","1","2","3","4","5","6","7","8","9"}
WordChar == Lower \cup Upper \cup Digit \cup {"_"}

\* str.startswith
StartsWith(s, p) == Len(s) >= Len(p) /\ SubSeq(s, 1, Len(p)) = p

\* ^codebase_collection_[a-zA-Z0-9_]+ anchored at the start and running to
\* the end of s.
FullMatch(s) ==
    /\ StartsWith(s, Prefix)
    /\ Len(s) > Len(Prefix)
    /\ \A i \in (Len(Prefix) + 1)..Len(s) : s[i] \in WordChar

\* re.match(r'^codebase_collection_[a-zA-Z0-9_]+$', s): Python's $ matches at
\* the end of the string and also just before a newline that ends the string.
ReMatch(s) ==
    \/ FullMatch(s)
    \/ /\ Len(s) > 0
       /\ s[Len(s)] = "\n"
       /\ FullMatch(SubSeq(s, 1, Len(s) - 1))

\* SELECT 1 FROM information_schema.tables WHERE table_schema = 'public'
\* AND table_name = :table_name
CatalogHas(name) == name \in ExistingTables

\* Chunks of a payload.
ChunkSet ==
    [id : Ids, document : Docs, source : Sources]
        \cup {[id |-> "1", document |-> "", source |-> NoSource]}

\* Position of a chunk in the order the lists of the model are written in.
Rank(c) ==
    (IF c.id = "1" THEN 0 ELSE IF c.id = "2" THEN 16 ELSE 32)
        + (IF c.source = "a.py" THEN 0 ELSE IF c.source = "b.py" THEN 2 ELSE 8)
        + (IF c.document = "" THEN 0 ELSE 1)

\* The chunks_to_upsert lists of the model: up to MaxChunks chunks, repeats
\* allowed, one list per multiset of chunks.
ChunkSeqs ==
    {s \in UNION {[1..n -> ChunkSet] : n \in 0..MaxChunks} :
        \A i, j \in 1..Len(s) : i < j => Rank(s[i]) <= Rank(s[j])}

Payloads == [table_name : TableNames, chunks_to_upsert : ChunkSeqs, files_to_delete : SUBSET Sources]

Range(s) == {s[i] : i \in 1..Len(s)}

RECURSIVE SelectDocs(_)
\* [... for c in chunks_to_upsert if c.get("document")]
SelectDocs(cs) ==
    IF cs = <<>> THEN <<>>
    ELSE IF Head(cs).document # ""
         THEN <<[id |-> Head(cs).id, source |-> Head(cs).source, content |-> Head(cs).document]>>
                  \o SelectDocs(Tail(cs))
         ELSE SelectDocs(Tail(cs))

\* Mutant: chunks without a document are inserted too.
records_unfiltered(cs) ==
    [k \in 1..Len(cs) |-> [id |-> cs[k].id, source |-> cs[k].source, content |-> cs[k].document]]

records_to_insert(cs) == SelectDocs(cs)

\* Mutant: the delete-before-insert step covers no source.
source_files_none(cs) == {}

\* Mutant: only chunks that carry a document name a source to clear.
source_files_with_document(cs) == {cs[k].source : k \in {j \in 1..Len(cs) : cs[j].document # ""}}

\* set(c['metadata']['source'] for c in chunks_to_upsert)
source_files_to_update(cs) == {cs[k].source : k \in 1..Len(cs)}

\* True when evaluating c['metadata']['source'] raises KeyError for a chunk.
RaisesKeyError(cs) == \E k \in 1..Len(cs) : cs[k].source = NoSource

\* Mutant: the delete is not restricted to the listed sources.
DeleteEveryRow(t, srcs) == {}

\* DELETE FROM t USING (VALUES ...) v WHERE t.metadata ->> 'source' = v.source_file
DeleteBySource(t, srcs) == {r \in t : r.source \notin srcs}

Min(a, b) == IF a < b THEN a ELSE b

\* Mutant: the slice stops one record early.
BatchDropsLast(recs, i) == SubSeq(recs, i + 1, Min(i + batch_size, Len(recs)) - 1)

\* records_to_insert[i:i + batch_size], i counted from zero
Batch(recs, i) == SubSeq(recs, i + 1, Min(i + batch_size, Len(recs)))

\* Mutant: the table has no primary key to reject an insert.
PkConflictNone(t, batch) == FALSE

\* The primary key on id rejects a multi-row insert that repeats an id or
\* reuses the id of a row the transaction still sees.
PkConflict(t, batch) ==
    \/ \E k, l \in 1..Len(batch) : k # l /\ batch[k].id = batch[l].id
    \/ \E k \in 1..Len(batch) : \E r \in t : r.id = batch[k].id

\* Mutant: the insert replaces the table's content.
InsertRowsOnly(t, batch) == Range(batch)

\* INSERT INTO t VALUES (...), ...
InsertRows(t, batch) == t \cup Range(batch)

\* Mutant: the rollback is lost and the transaction's view stays.
RollbackKeepsView(committed, view) == view

\* transaction.rollback(): the table is again what was last committed.
Rollback(committed, view) == committed

\* The chunk lists a payload with table name n carries into a call of
\* deployment v: every list of ChunkSeqs for a name the deployment accepts,
\* the lists of at most one chunk for a name it rejects (the rest of such a
\* payload is never read).
Accepted(v, n) ==
    IF v = "main" THEN ReMatch(n) /\ CatalogHas(n) ELSE n \in ALLOWED_TABLES

(***************************************************************************)
(* State.                                                                  *)
(***************************************************************************)
VARIABLES
    variant,     \* "main": main.py (regex + catalog), "func": func.py (allowlist)
    autobegin,   \* TRUE when the execute() of the catalog query leaves a transaction begun on the connection
    rows,        \* committed rows of the target table
    txrows,      \* rows as seen inside the open transaction
    pc,          \* position of the call in _process_database_transaction
    payload,     \* payload of the current (or last) call
    idx,         \* i of the insert loop
    stmts,       \* statements the call has executed, in order
    txOpen,      \* connection.begin() has been entered and not yet left
    txOpened,    \* the call entered connection.begin()
    outcome,     \* how the call ended
    failedAt,    \* statement whose failure ended the call
    pre,         \* rows when the call started
    replay,      \* the call repeats the payload of the previous, committed call
    db_engine,   \* the module-level cached engine: 0 is None, n > 0 the n-th engine built
    engines,     \* number of engines create_engine has built
    validated,   \* engines whose validation query succeeded
    calls,       \* calls of the connection layer started so far
    started,     \* main.py: "yes" once the lifespan entered initialize_dependencies, "skipped" when the app serves without it
    acq,         \* per thread: the state of its call into the connection layer
    sess,        \* per thread: the database session of a reconciliation that runs next to another
    connection,  \* the reconciliation's use of the pool: connections it holds checked out, checkouts of the current call
    pool         \* the process's engines: connections checked out of each, engines disposed, process stopped

\* The connection layer's state.
conn == <<db_engine, engines, validated, calls, started, acq>>
\* What the reconciliation leaves alone: the deployment, fixed for the life of
\* the process, and the connection layer.
env == <<variant, autobegin, conn, sess, pool>>
\* The deployment alone.
deployment == <<variant, autobegin>>
\* What a call remembers of how it started.
hist == <<payload, pre, replay>>

\* The reconciliation's state.
rec == <<rows, txrows, pc, idx, stmts, txOpen, txOpened, outcome, failedAt, hist, sess, pool, connection>>

vars == <<env, rec>>

Row(i, s, d) == [id |-> i, source |-> s, content |-> d]

\* Tables the first call may find: every set of old rows with unique ids.
InitTables ==
    {t \in SUBSET [id : Ids, source : Sources, content : {OldDoc}] :
        \A r1, r2 \in t : r1.id = r2.id => r1 = r2}

EmptyPayload == [table_name |-> NameEmpty, chunks_to_upsert |-> <<>>, files_to_delete |-> {}]

Threads == {1, 2}

\* The reconciliation holds no connection.
NoConnection == [out |-> 0, taken |-> 0]

\* with engine.connect() as connection: a connection is checked out.
Checkedout(c) == [out |-> c.out + 1, taken |-> c.taken + 1]

\* Mutant: leaving the with block keeps the connection checked out.
ReleaseLeaks(c) == c

\* The with block of engine.connect() is left, normally or by an exception:
\* the connection, if one was checked out, goes back to the pool.
Release(c) == [c EXCEPT !.out = IF @ > 0 THEN @ - 1 ELSE 0]

\* A thread that runs no reconciliation next to another.
SessIdle ==
    [pc |-> "idle", payload |-> EmptyPayload, dels |-> {}, ins |-> {}, snap |-> {},
     idx |-> 0, outcome |-> "none", overlap |-> FALSE]

\* max_retries = 3
max_retries == 3

\* Names of the engines a run of the process can build.
EngineIds == 1..(MaxCalls * max_retries)

\* No connection is checked out, nothing is disposed, the process runs.
PoolIdle == [inuse |-> [e \in EngineIds |-> 0], disposed |-> <<>>, down |-> FALSE]

\* A thread that is not inside the connection layer.
AcqIdle ==
    [pc |-> "idle", attempt |-> 0, sleeps |-> <<>>, fetches |-> 0, builds |-> 0,
     secret |-> "none", second |-> FALSE, engine |-> 0, proven |-> 0, result |-> 0,
     err |-> "none", probe |-> "none", stage |-> "none"]

\* The connection layer before the first call: nothing cached.
InitConn ==
    /\ db_engine = 0
    /\ engines = 0
    /\ validated = {}
    /\ calls = 0
    /\ started = "no"
    /\ acq = [t \in Threads |-> AcqIdle]

Init ==
    /\ variant \in {"main", "func"}
    /\ autobegin \in BOOLEAN
    /\ (variant = "func" => autobegin = FALSE)
    /\ InitConn
    /\ rows \in InitTables
    /\ txrows = rows
    /\ pc = "idle"
    /\ payload = EmptyPayload
    /\ idx = 0
    /\ stmts = <<>>
    /\ txOpen = FALSE
    /\ txOpened = FALSE
    /\ outcome = "none"
    /\ failedAt = "none"
    /\ pre = rows
    /\ replay = FALSE
    /\ sess = [t \in Threads |-> SessIdle]
    /\ pool = PoolIdle
    /\ connection = NoConnection

\* Mutant: the error leaves the transaction's writes in the table.
RaiseKeepsWrites(err, at, log) ==
    /\ pc' = "done"
    /\ outcome' = err
    /\ failedAt' = at
    /\ rows' = txrows
    /\ txrows' = txrows
    /\ txOpen' = FALSE
    /\ stmts' = IF txOpen THEN Append(log, "rollback") ELSE log
    /\ connection' = Release(connection)
    /\ UNCHANGED <<env, idx, txOpened, hist>>

\* The call ends by raising `err` out of `at`; an open transaction is rolled
\* back on the way out (the except branch's transaction.rollback(), or the
\* exit of the connection.begin() block for other errors).
Raise(err, at, log) ==
    /\ pc' = "done"
    /\ outcome' = err
    /\ failedAt' = at
    /\ rows' = IF txOpen THEN Rollback(rows, txrows) ELSE rows
    /\ txrows' = rows'
    /\ txOpen' = FALSE
    /\ stmts' = IF txOpen THEN Append(log, "rollback") ELSE log
    /\ connection' = Release(connection)
    /\ UNCHANGED <<env, idx, txOpened, hist>>

\* One invocation hands payload p to _process_database_transaction.
Start(p) ==
    /\ pc = "idle"
    /\ Accepted(variant, p.table_name) \/ Len(p.chunks_to_upsert) <= 1
    /\ payload' = p
    /\ replay' = FALSE
    /\ pre' = rows
    /\ pc' = "check"
    /\ idx' = 0
    /\ stmts' = <<>>
    /\ txOpened' = FALSE
    /\ outcome' = "none"
    /\ failedAt' = "none"
    /\ connection' = [connection EXCEPT !.taken = 0]
    /\ UNCHANGED <<env, rows, txrows, txOpen>>

StartCall == pc = "idle" /\ \E p \in Payloads : Start(p)

\* Mutant: a call that failed with a database error runs its transaction
\* again within the same invocation.
RetryFailed ==
    /\ pc = "done"
    /\ outcome = "OperationalError"
    /\ txOpened
    /\ pc' = "check"
    /\ idx' = 0
    /\ outcome' = "none"
    /\ failedAt' = "none"
    /\ UNCHANGED <<env, connection, rows, txrows, txOpen, txOpened, stmts, hist>>

\* The invocation that follows a committed one carries the same payload.
Replay ==
    /\ pc = "done"
    /\ outcome = "success"
    /\ replay' = TRUE
    /\ pre' = rows
    /\ pc' = "check"
    /\ idx' = 0
    /\ stmts' = <<>>
    /\ txOpened' = FALSE
    /\ outcome' = "none"
    /\ failedAt' = "none"
    /\ connection' = [connection EXCEPT !.taken = 0]
    /\ UNCHANGED <<env, rows, txrows, txOpen, payload>>

\* main.py: if not table_name_raw: raise ValueError
\* func.py: if table_name_raw not in ALLOWED_TABLES: raise ValueError
CheckTableName ==
    /\ pc = "check"
    /\ IF variant = "main"
       THEN IF payload.table_name = <<>>
            THEN Raise("ValueError", "table_name", stmts)
            ELSE /\ pc' = "connect"
                 /\ UNCHANGED <<env, connection, rows, txrows, idx, stmts, txOpen, txOpened, outcome, failedAt, hist>>
       ELSE IF payload.table_name \notin ALLOWED_TABLES
            THEN Raise("ValueError", "table_name", stmts)
            ELSE /\ pc' = "connect"
                 /\ UNCHANGED <<env, connection, rows, txrows, idx, stmts, txOpen, txOpened, outcome, failedAt, hist>>

\* Mutant: the transaction is opened without the table validation.
ConnectSkipsValidation ==
    /\ pc = "connect"
    /\ pc' = "begin"
    /\ connection' = Checkedout(connection)
    /\ UNCHANGED <<env, rows, txrows, idx, stmts, txOpen, txOpened, outcome, failedAt, hist>>

\* with engine.connect() as connection: the checkout succeeds or raises.
Connect ==
    /\ pc = "connect"
    /\ \/ /\ pc' = IF variant = "main" THEN "validate" ELSE "begin"
          /\ connection' = Checkedout(connection)
          /\ UNCHANGED <<env, rows, txrows, idx, stmts, txOpen, txOpened, outcome, failedAt, hist>>
       \/ Raise("OperationalError", "connect", stmts)

\* _validate_table_exists(connection, table_name, log).  log is the
\* logging.LoggerAdapter of get_logger, and each of the function's three log
\* calls passes table_name=... as a keyword: Logger._log takes no such
\* keyword and the call raises TypeError.  The function therefore never
\* returns: it ends in TypeError where it meant to raise ValueError (a name
\* that fails the pattern, a table the catalog does not list) and where it
\* meant to return (the table exists), unless the catalog query itself fails.
ValidateTable ==
    /\ pc = "validate"
    /\ IF ~ReMatch(payload.table_name)
       THEN Raise("TypeError", "syntax", stmts)
       ELSE \/ Raise("OperationalError", "catalog", Append(stmts, "catalog"))
            \/ IF ~CatalogHas(payload.table_name)
               THEN Raise("TypeError", "existence", Append(stmts, "catalog"))
               ELSE Raise("TypeError", "validated", Append(stmts, "catalog"))

\* with connection.begin() as transaction: refused when the catalog query
\* already began a transaction on this connection.
Begin ==
    /\ pc = "begin"
    /\ IF variant = "main" /\ autobegin
       THEN Raise("InvalidRequestError", "begin", stmts)
       ELSE /\ txOpen' = TRUE
            /\ txOpened' = TRUE
            /\ txrows' = rows
            /\ stmts' = Append(stmts, "begin")
            /\ pc' = "delete_files"
            /\ UNCHANGED <<env, connection, rows, idx, outcome, failedAt, hist>>

\* if files_to_delete: connection.execute(delete_stmt)
DeleteFiles ==
    /\ pc = "delete_files"
    /\ IF payload.files_to_delete = {}
       THEN /\ pc' = "upsert"
            /\ UNCHANGED <<env, connection, rows, txrows, idx, stmts, txOpen, txOpened, outcome, failedAt, hist>>
       ELSE \/ /\ txrows' = DeleteBySource(txrows, payload.files_to_delete)
               /\ stmts' = Append(stmts, "delete_files")
               /\ pc' = "upsert"
               /\ UNCHANGED <<env, connection, rows, idx, txOpen, txOpened, outcome, failedAt, hist>>
            \/ Raise("OperationalError", "delete_files", Append(stmts, "delete_files"))

\* if chunks_to_upsert: the sources' rows are deleted and the records to
\* insert are selected.
UpsertDelete ==
    /\ pc = "upsert"
    /\ IF payload.chunks_to_upsert = <<>>
       THEN /\ pc' = "commit"
            /\ UNCHANGED <<env, connection, rows, txrows, idx, stmts, txOpen, txOpened, outcome, failedAt, hist>>
       ELSE IF RaisesKeyError(payload.chunks_to_upsert)
            THEN Raise("KeyError", "sources", stmts)
            ELSE \/ /\ txrows' = DeleteBySource(txrows, source_files_to_update(payload.chunks_to_upsert))
                    /\ stmts' = Append(stmts, "delete_upsert")
                    /\ idx' = 0
                    /\ pc' = IF records_to_insert(payload.chunks_to_upsert) = <<>> THEN "commit" ELSE "insert"
                    /\ UNCHANGED <<env, connection, rows, txOpen, txOpened, outcome, failedAt, hist>>
                 \/ Raise("OperationalError", "delete_upsert", Append(stmts, "delete_upsert"))

\* One turn of: for i in range(0, len(records_to_insert), batch_size)
InsertBatch ==
    /\ pc = "insert"
    /\ LET recs == records_to_insert(payload.chunks_to_upsert)
           batch == Batch(recs, idx)
       IN IF PkConflict(txrows, batch)
          THEN Raise("IntegrityError", "insert", Append(stmts, "insert"))
          ELSE \/ /\ txrows' = InsertRows(txrows, batch)
                  /\ stmts' = Append(stmts, "insert")
                  /\ idx' = idx + batch_size
                  /\ pc' = IF idx + batch_size >= Len(recs) THEN "commit" ELSE "insert"
                  /\ UNCHANGED <<env, connection, rows, txOpen, txOpened, outcome, failedAt, hist>>
               \/ Raise("OperationalError", "insert", Append(stmts, "insert"))

\* Mutant: the commit takes effect and the call still raises.
CommitThenRaise ==
    /\ pc = "commit"
    /\ rows' = txrows
    /\ txOpen' = FALSE
    /\ stmts' = Append(stmts, "commit")
    /\ outcome' = "OperationalError"
    /\ failedAt' = "commit"
    /\ pc' = "done"
    /\ connection' = Release(connection)
    /\ UNCHANGED <<env, txrows, idx, txOpened, hist>>

\* transaction.commit()
Commit ==
    /\ pc = "commit"
    /\ \/ /\ rows' = txrows
          /\ txOpen' = FALSE
          /\ stmts' = Append(stmts, "commit")
          /\ outcome' = "success"
          /\ pc' = "done"
          /\ connection' = Release(connection)
          /\ UNCHANGED <<env, txrows, idx, txOpened, failedAt, hist>>
       \/ Raise("OperationalError", "commit", Append(stmts, "commit"))

Next ==
    \/ StartCall
    \/ Replay
    \/ CheckTableName
    \/ Connect
    \/ ValidateTable
    \/ Begin
    \/ DeleteFiles
    \/ UpsertDelete
    \/ InsertBatch
    \/ Commit

Spec == Init /\ [][Next]_vars

(***************************************************************************)
(* What the caller of an invocation gets back.                             *)
(***************************************************************************)
\* The fields of the success result: main.py returns JSONResponse(content=
\* {"status", "message", "invocation_id"}), func.py the same dictionary.
SuccessResult ==
    [status |-> "success", message |-> "Processed <object_name> successfully.",
     invocation_id |-> "<invocation_id>"]

\* The answer to a call that ended with `o`.  main.py: ConfigurationError and
\* ValueError are re-raised to the two exception handlers, every other
\* exception is answered in handle_invocation's `except Exception`.  func.py:
\* handler logs the exception and re-raises it; no result is built.
Response(v, o) ==
    IF o = "success" THEN SuccessResult
    ELSE IF v = "main"
         THEN IF o = "ValueError"
              THEN [status |-> "error", type |-> "validation_error", message |-> o, code |-> 400]
              ELSE IF o = "ConfigurationError"
                   THEN [status |-> "error", type |-> "configuration_error", message |-> o, code |-> 500]
                   ELSE [status |-> "error", type |-> "internal_server_error",
                         message |-> "An unexpected internal error occurred.", code |-> 500]
         ELSE [raised |-> o]

(***************************************************************************)
(* The connection layer: _get_db_engine (func.py), initialize_dependencies *)
(* and get_db_engine (main.py).                                            *)
(***************************************************************************)
\* What the secret store hands back: a well-formed secret, content that is
\* not base64, content that is not JSON, JSON that lacks a required field.
SecretKinds == {"ok", "bad_base64", "bad_json", "missing_field"}

\* The exception base64.b64decode, json.loads or DbSecret.model_validate raises.
DecodeError(k) ==
    IF k = "bad_base64" THEN "binascii.Error"
    ELSE IF k = "bad_json" THEN "JSONDecodeError"
    ELSE "pydantic.ValidationError"

\* Mutant: the backoff does not grow.
BackoffFixed(attempt) == 1

\* time.sleep(2 ** attempt)
Backoff(attempt) == 2 ^ attempt

Set(t, r) == acq' = [acq EXCEPT ![t] = r]

\* except Exception as e: sleep and go round again while attempts remain,
\* re-raise after the last one.  a is the thread's state when the step failed.
Fail(t, a, kind, stage) ==
    IF a.attempt < max_retries - 1
    THEN Set(t, [a EXCEPT !.pc = "fetch", !.attempt = a.attempt + 1,
                          !.sleeps = Append(a.sleeps, Backoff(a.attempt)),
                          !.second = FALSE, !.stage = stage, !.err = kind])
    ELSE Set(t, [a EXCEPT !.pc = "raised", !.stage = stage, !.err = kind])

Resting(t) == acq[t].pc \in {"idle", "returned", "raised"}

\* func.py: _get_db_engine is entered; main.py: the lifespan enters
\* initialize_dependencies, whose loop starts at the secret fetch.
AcquireStart(t) ==
    /\ Resting(t)
    /\ calls < MaxCalls
    /\ IF variant = "func"
       THEN /\ Set(t, [AcqIdle EXCEPT !.pc = IF db_engine # 0 THEN "probe" ELSE "fetch"])
            /\ UNCHANGED started
       ELSE /\ started = "no"
            /\ started' = "yes"
            /\ Set(t, [AcqIdle EXCEPT !.pc = "fetch"])
    /\ calls' = calls + 1
    /\ UNCHANGED <<deployment, rec, db_engine, engines, validated>>

\* Mutant: a probe that succeeded still drops the cached engine and goes on
\* to rebuild it.
ProbeAlwaysRebuilds(t) ==
    /\ acq[t].pc = "probe"
    /\ db_engine # 0
    /\ Set(t, [acq[t] EXCEPT !.pc = "fetch", !.proven = db_engine, !.probe = "ok"])
    /\ db_engine' = 0
    /\ UNCHANGED <<deployment, rec, engines, validated, calls, started>>

\* with db_engine.connect() as connection: connection.execute(text("SELECT 1"))
\* Only exc.OperationalError is caught.  The pool hands the probe a
\* connection, on which the query succeeds or fails, only while it has one to
\* give; waiting for one in vain ends in the pool's TimeoutError, which like
\* every other exception leaves the function.
Probe(t) ==
    /\ acq[t].pc = "probe"
    /\ IF db_engine = 0
       THEN /\ Set(t, [acq[t] EXCEPT !.pc = "raised", !.err = "AttributeError", !.probe = "AttributeError"])
            /\ UNCHANGED db_engine
       ELSE \/ /\ pool.inuse[db_engine] < pool_size + max_overflow
               /\ Set(t, [acq[t] EXCEPT !.pc = "return", !.proven = db_engine, !.probe = "ok"])
               /\ UNCHANGED db_engine
            \/ /\ pool.inuse[db_engine] < pool_size + max_overflow
               /\ Set(t, [acq[t] EXCEPT !.pc = "fetch", !.probe = "OperationalError"])
               /\ db_engine' = 0
            \/ /\ Set(t, [acq[t] EXCEPT !.pc = "raised", !.err = "InterfaceError", !.probe = "InterfaceError"])
               /\ UNCHANGED db_engine
    /\ UNCHANGED <<deployment, rec, engines, validated, calls, started>>

\* secrets_client.get_secret_bundle(...)
Fetch(t) ==
    /\ acq[t].pc = "fetch"
    /\ LET a == [acq[t] EXCEPT !.fetches = acq[t].fetches + 1] IN
       \/ \E k \in SecretKinds : Set(t, [a EXCEPT !.pc = "decode", !.secret = k])
       \/ Fail(t, a, "ServiceError", "fetch")
    /\ UNCHANGED <<deployment, rec, db_engine, engines, validated, calls, started>>

\* base64.b64decode(...).decode('utf-8'); json.loads(...);
\* DbSecret.model_validate(...).  initialize_dependencies fetches and decodes
\* the secret a second time before it builds the engine.
Decode(t) ==
    /\ acq[t].pc = "decode"
    /\ LET a == acq[t] IN
       IF a.secret # "ok"
       THEN Fail(t, a, DecodeError(a.secret), "decode")
       ELSE IF variant = "main" /\ ~a.second
            THEN Set(t, [a EXCEPT !.pc = "fetch", !.second = TRUE])
            ELSE Set(t, [a EXCEPT !.pc = "create"])
    /\ UNCHANGED <<deployment, rec, db_engine, engines, validated, calls, started>>

\* func.py: db_engine = create_engine(...)   (the module-level name)
\* main.py: engine = create_engine(...)      (a local name)
Create(t) ==
    /\ acq[t].pc = "create"
    /\ LET a == acq[t] IN
       \/ /\ engines' = engines + 1
          /\ IF variant = "func"
             THEN /\ db_engine' = engines + 1
                  /\ Set(t, [a EXCEPT !.pc = "validate", !.builds = a.builds + 1])
             ELSE /\ UNCHANGED db_engine
                  /\ Set(t, [a EXCEPT !.pc = "validate", !.builds = a.builds + 1, !.engine = engines + 1])
       \/ /\ Fail(t, a, "ArgumentError", "create")
          /\ UNCHANGED <<db_engine, engines>>
    /\ UNCHANGED <<deployment, rec, validated, calls, started>>

\* The engine the validation query runs on: func.py reads the module-level
\* name again, main.py its local.
EngineToValidate(t) == IF variant = "func" THEN db_engine ELSE acq[t].engine

\* with engine.connect() as connection: connection.execute(text("SELECT version()"))
\* initialize_dependencies runs this block twice.
Validate(t) ==
    /\ acq[t].pc \in {"validate", "validate2"}
    /\ LET a == acq[t]
           e == EngineToValidate(t) IN
       IF e = 0
       THEN /\ Fail(t, a, "AttributeError", "validate")
            /\ UNCHANGED validated
       ELSE \/ /\ validated' = validated \cup {e}
               /\ Set(t, [a EXCEPT !.proven = e,
                                   !.pc = IF variant = "main" /\ a.pc = "validate" THEN "validate2" ELSE "return"])
            \/ /\ Fail(t, a, "OperationalError", "validate")
               /\ UNCHANGED validated
    /\ UNCHANGED <<deployment, rec, db_engine, engines, calls, started>>

\* func.py: return db_engine        (the module-level name, read again)
\* main.py: db_engine = engine; return
Return(t) ==
    /\ acq[t].pc = "return"
    /\ IF variant = "func"
       THEN /\ Set(t, [acq[t] EXCEPT !.pc = "returned", !.result = db_engine])
            /\ UNCHANGED db_engine
       ELSE /\ db_engine' = acq[t].engine
            /\ Set(t, [acq[t] EXCEPT !.pc = "returned", !.result = acq[t].engine])
    /\ UNCHANGED <<deployment, rec, engines, validated, calls, started>>

\* Mutant: the dependency hands out db_engine without testing it for None.
GetDbEngineUntested(t) ==
    /\ variant = "main"
    /\ Resting(t)
    /\ calls < MaxCalls
    /\ \/ started = "no" /\ started' = "skipped"
       \/ started = "skipped" /\ UNCHANGED started
       \/ started = "yes" /\ db_engine # 0 /\ UNCHANGED started
    /\ calls' = calls + 1
    /\ Set(t, [AcqIdle EXCEPT !.pc = "returned", !.result = db_engine, !.stage = "get_db_engine"])
    /\ UNCHANGED <<deployment, rec, db_engine, engines, validated>>

\* main.py get_db_engine: the dependency that hands the engine to
\* handle_invocation; 503 while db_engine is None.
GetDbEngine(t) ==
    /\ variant = "main"
    /\ Resting(t)
    /\ calls < MaxCalls
    /\ \/ started = "no" /\ started' = "skipped"
       \/ started = "skipped" /\ UNCHANGED started
       \/ started = "yes" /\ db_engine # 0 /\ UNCHANGED started
    /\ calls' = calls + 1
    /\ IF db_engine = 0
       THEN Set(t, [AcqIdle EXCEPT !.pc = "raised", !.err = "HTTP503", !.stage = "get_db_engine"])
       ELSE Set(t, [AcqIdle EXCEPT !.pc = "returned", !.result = db_engine, !.stage = "get_db_engine"])
    /\ UNCHANGED <<deployment, rec, db_engine, engines, validated>>

\* The reconciliation at rest, with an empty table.
InitRec ==
    /\ rows = {}
    /\ txrows = rows
    /\ pc = "idle"
    /\ payload = EmptyPayload
    /\ idx = 0
    /\ stmts = <<>>
    /\ txOpen = FALSE
    /\ txOpened = FALSE
    /\ outcome = "none"
    /\ failedAt = "none"
    /\ pre = rows
    /\ replay = FALSE
    /\ sess = [t \in Threads |-> SessIdle]
    /\ pool = PoolIdle
    /\ connection = NoConnection

InitAcquire ==
    /\ variant \in {"main", "func"}
    /\ autobegin = FALSE
    /\ InitConn
    /\ InitRec

\* One thread at a time is inside the connection layer.
NextAcquire ==
    \/ AcquireStart(1)
    \/ Probe(1)
    \/ Fetch(1)
    \/ Decode(1)
    \/ Create(1)
    \/ Validate(1)
    \/ Return(1)
    \/ GetDbEngine(1)

SpecAcquire == InitAcquire /\ [][NextAcquire]_vars

\* func.py: invocations that run in the same process share the module-level
\* db_engine, and _get_db_engine takes no lock.
InitConcurrent ==
    /\ variant = "func"
    /\ autobegin = FALSE
    /\ InitConn
    /\ InitRec

\* Any thread takes the next step of its call.
NextConcurrent ==
    \E t \in Threads :
        \/ AcquireStart(t)
        \/ Probe(t)
        \/ Fetch(t)
        \/ Decode(t)
        \/ Create(t)
        \/ Validate(t)
        \/ Return(t)

SpecConcurrent == InitConcurrent /\ [][NextConcurrent]_vars

(***************************************************************************)
(* The process over its lifetime: invocations obtain the engine, check a   *)
(* connection out of its pool for their transaction and hand it back; in   *)
(* the end the process shuts down.  create_engine gives every engine a     *)
(* QueuePool of its own, which lets pool_size + max_overflow connections   *)
(* out at a time.  Only connections checked out are counted; those a pool  *)
(* keeps open while idle are not.                                          *)
(***************************************************************************)
\* What checking a connection out or in leaves alone in the reconciliation.
work == <<rows, txrows, pc, idx, stmts, txOpen, txOpened, outcome, failedAt, hist, sess, connection>>

RECURSIVE SumUpTo(_, _)
SumUpTo(f, n) == IF n = 0 THEN 0 ELSE f[n] + SumUpTo(f, n - 1)

\* Connections checked out across all engines of the process.
InUse == SumUpTo(pool.inuse, MaxCalls * max_retries)

Serving == ~pool.down

\* with engine.connect() as connection: (func.py:185, main.py:277) the
\* invocation that was handed an engine checks a connection out of that
\* engine's pool and keeps it for its transaction; the thread is then free
\* for the next invocation.  main.py: handle_invocation is a coroutine that
\* does not await while it holds the connection, so its invocations hold
\* one at a time.
Checkout(t) ==
    /\ acq[t].pc = "returned"
    /\ acq[t].result # 0
    /\ variant = "main" => (acq[t].stage = "get_db_engine" /\ InUse = 0)
    /\ pool.inuse[acq[t].result] < pool_size + max_overflow
    /\ pool' = [pool EXCEPT !.inuse[acq[t].result] = @ + 1]
    /\ Set(t, AcqIdle)
    /\ UNCHANGED <<deployment, work, db_engine, engines, validated, calls, started>>

\* The with block of engine.connect() is left: the connection goes back to
\* the pool of the engine it came from.
Checkin ==
    \E e \in EngineIds :
        /\ pool.inuse[e] > 0
        /\ pool' = [pool EXCEPT !.inuse[e] = @ - 1]
        /\ UNCHANGED <<deployment, work, conn>>

\* The process stops.  main.py: the lifespan, if initialize_dependencies
\* returned, goes on behind its yield: if db_engine: db_engine.dispose().
\* func.py has no code that runs at shutdown.
Shutdown ==
    /\ Serving
    /\ Resting(1)
    /\ pool' = [pool EXCEPT
           !.down = TRUE,
           !.disposed = IF variant = "main" /\ started = "yes" /\ db_engine # 0
                        THEN Append(@, db_engine) ELSE @]
    /\ UNCHANGED <<deployment, work, conn>>

InitProcess ==
    /\ variant \in {"main", "func"}
    /\ autobegin = FALSE
    /\ InitConn
    /\ InitRec

NextProcess ==
    \/ Serving /\ AcquireStart(1)
    \/ Serving /\ Probe(1)
    \/ Serving /\ Fetch(1)
    \/ Serving /\ Decode(1)
    \/ Serving /\ Create(1)
    \/ Serving /\ Validate(1)
    \/ Serving /\ Return(1)
    \/ Serving /\ GetDbEngine(1)
    \/ Serving /\ Checkout(1)
    \/ Serving /\ Checkin
    \/ Shutdown

SpecProcess == InitProcess /\ [][NextProcess]_vars

(***************************************************************************)
(* Two invocations run _process_database_transaction at the same time,     *)
(* each on its own connection and in its own transaction.  The code sets   *)
(* no isolation level and takes no lock: the database is PostgreSQL at its *)
(* default level, READ COMMITTED.  A DELETE sees the rows committed when   *)
(* the statement starts, waits for a transaction that holds one of them    *)
(* deleted and skips the row if that transaction commits; the primary key  *)
(* is checked against the rows as they are, and waits for a transaction    *)
(* that has inserted or deleted the key.  Statements fail only on a key    *)
(* conflict or as the victim of a deadlock.  The deployment is func.py,    *)
(* lines 185 to 239; main.py runs the same statements in lines 279 to 306. *)
(***************************************************************************)
\* Chunk ids of the two invocations; the table may hold a row of a third id.
SessionIds == {"1", "2"}

\* Payloads of the two invocations: an accepted table name and well-formed
\* chunks that carry a document.
SessionChunkSeqs ==
    {c \in ChunkSeqs :
        /\ Len(c) <= MaxSessionChunks
        /\ \A k \in 1..Len(c) :
               c[k].document # "" /\ c[k].source \in Sources /\ c[k].id \in SessionIds}

SessionPayloads ==
    [table_name : ALLOWED_TABLES, chunks_to_upsert : SessionChunkSeqs, files_to_delete : SUBSET Sources]

Other(t) == CHOOSE o \in Threads : o # t

\* What the two sessions leave alone.
sessionFrame ==
    <<deployment, conn, txrows, pc, payload, idx, stmts, txOpen, txOpened, outcome, failedAt, hist, pool, connection>>

SetSess(t, r) == sess' = [sess EXCEPT ![t] = r]

\* The rows a DELETE ... WHERE metadata ->> 'source' = v.source_file of
\* session t finds when it starts: committed rows of the listed sources that
\* the session has not deleted itself.
DeleteTargets(t, srcs) == {r \in rows : r.source \in srcs /\ r \notin sess[t].dels}

\* How the primary key takes record r of session t, `earlier` being the
\* records of the same statement before it.
KeyCheck(t, r, earlier) ==
    IF \E e \in earlier \cup sess[t].ins : e.id = r.id
    THEN "conflict"
    ELSE IF \E x \in rows : x.id = r.id /\ x \notin sess[t].dels
         THEN IF \E x \in sess[Other(t)].dels : x.id = r.id THEN "wait" ELSE "conflict"
         ELSE IF \E e \in sess[Other(t)].ins : e.id = r.id THEN "wait" ELSE "clean"

\* How the multi-row insert of `batch` goes: the fate of its first record
\* that is not taken at once.
BatchCheck(t, batch) ==
    LET bad == {k \in 1..Len(batch) :
                   KeyCheck(t, batch[k], {batch[j] : j \in 1..(k - 1)}) # "clean"}
    IN IF bad = {} THEN "clean"
       ELSE LET k == CHOOSE m \in bad : \A n \in bad : m <= n
            IN KeyCheck(t, batch[k], {batch[j] : j \in 1..(k - 1)})

\* Session t waits for the other session's transaction to end.
Waiting(t) ==
    \/ /\ sess[t].pc \in {"delete_files_run", "delete_upsert_run"}
       /\ sess[t].snap \cap sess[Other(t)].dels # {}
    \/ /\ sess[t].pc = "insert"
       /\ BatchCheck(t, Batch(records_to_insert(sess[t].payload.chunks_to_upsert), sess[t].idx)) = "wait"

\* The session's transaction ends without effect and the call raises err.
SessionAbort(t, err) ==
    SetSess(t, [sess[t] EXCEPT !.pc = "done", !.outcome = err, !.dels = {}, !.ins = {}, !.snap = {}])

\* with engine.connect() as connection: with connection.begin() as transaction:
\* Thread 1 is the invocation that arrives first.
SessionBegin(t) ==
    /\ sess[t].pc = "idle"
    /\ t = 1 \/ sess[1].pc # "idle"
    /\ \E q \in SessionPayloads :
           SetSess(t, [SessIdle EXCEPT !.pc = "delete_files", !.payload = q,
                                       !.overlap = sess[Other(t)].pc \notin {"idle", "done"}])
    /\ UNCHANGED <<sessionFrame, rows>>

\* Where the session goes on after its delete statement `at`.
AfterDelete(t, at) ==
    IF at = "delete_files" THEN "upsert"
    ELSE IF records_to_insert(sess[t].payload.chunks_to_upsert) = <<>> THEN "commit"
    ELSE "insert"

\* A delete statement of session t over the sources srcs: it deletes the rows
\* it finds, or, when the other session holds one of them deleted, keeps
\* what it found and waits.
SessionDelete(t, srcs, at) ==
    LET found == DeleteTargets(t, srcs)
    IN IF found \cap sess[Other(t)].dels = {}
       THEN SetSess(t, [sess[t] EXCEPT !.dels = sess[t].dels \cup found, !.pc = AfterDelete(t, at)])
       ELSE SetSess(t, [sess[t] EXCEPT !.snap = found,
                                       !.pc = IF at = "delete_files" THEN "delete_files_run"
                                              ELSE "delete_upsert_run"])

\* if files_to_delete: connection.execute(delete_stmt)
SessionDeleteFiles(t) ==
    /\ sess[t].pc = "delete_files"
    /\ IF sess[t].payload.files_to_delete = {}
       THEN SetSess(t, [sess[t] EXCEPT !.pc = "upsert"])
       ELSE SessionDelete(t, sess[t].payload.files_to_delete, "delete_files")
    /\ UNCHANGED <<sessionFrame, rows>>

\* if chunks_to_upsert: connection.execute(upsert_delete_stmt)
SessionUpsertDelete(t) ==
    /\ sess[t].pc = "upsert"
    /\ IF sess[t].payload.chunks_to_upsert = <<>>
       THEN SetSess(t, [sess[t] EXCEPT !.pc = "commit"])
       ELSE SessionDelete(t, source_files_to_update(sess[t].payload.chunks_to_upsert), "delete_upsert")
    /\ UNCHANGED <<sessionFrame, rows>>

\* A delete statement that waited goes on once the other transaction has
\* ended: of the rows it had found, those still in the table are deleted.
SessionDeleteRun(t) ==
    /\ sess[t].pc \in {"delete_files_run", "delete_upsert_run"}
    /\ ~Waiting(t)
    /\ SetSess(t, [sess[t] EXCEPT
           !.dels = sess[t].dels \cup (sess[t].snap \cap rows),
           !.snap = {},
           !.pc = AfterDelete(t, IF sess[t].pc = "delete_files_run" THEN "delete_files" ELSE "delete_upsert")])
    /\ UNCHANGED <<sessionFrame, rows>>

\* One turn of the insert loop.
SessionInsertBatch(t) ==
    /\ sess[t].pc = "insert"
    /\ LET recs == records_to_insert(sess[t].payload.chunks_to_upsert)
           batch == Batch(recs, sess[t].idx)
           fate == BatchCheck(t, batch)
       IN /\ fate # "wait"
          /\ IF fate = "conflict"
             THEN SessionAbort(t, "IntegrityError")
             ELSE SetSess(t, [sess[t] EXCEPT
                      !.ins = sess[t].ins \cup Range(batch),
                      !.idx = sess[t].idx + batch_size,
                      !.pc = IF sess[t].idx + batch_size >= Len(recs) THEN "commit" ELSE "insert"])
    /\ UNCHANGED <<sessionFrame, rows>>

\* Mutant: the commit writes the table as the session believes it to be,
\* over whatever the other session has committed meanwhile.
SessionCommitLosesUpdate(t) ==
    /\ sess[t].pc = "commit"
    /\ rows' = (pre \ sess[t].dels) \cup sess[t].ins
    /\ SetSess(t, [sess[t] EXCEPT !.pc = "done", !.outcome = "success", !.dels = {}, !.ins = {}])
    /\ UNCHANGED sessionFrame

\* transaction.commit(): the session's deletions and inserts become the
\* committed table.
SessionCommit(t) ==
    /\ sess[t].pc = "commit"
    /\ rows' = (rows \ sess[t].dels) \cup sess[t].ins
    /\ SetSess(t, [sess[t] EXCEPT !.pc = "done", !.outcome = "success", !.dels = {}, !.ins = {}])
    /\ UNCHANGED sessionFrame

\* Each session waits for the other: the database ends one of them with a
\* deadlock error (an OperationalError), which rolls its transaction back.
SessionDeadlock(t) ==
    /\ Waiting(t)
    /\ Waiting(Other(t))
    /\ SessionAbort(t, "OperationalError")
    /\ UNCHANGED <<sessionFrame, rows>>

InitSessions ==
    /\ variant = "func"
    /\ autobegin = FALSE
    /\ InitConn
    /\ rows \in InitTables
    /\ txrows = rows
    /\ pc = "idle"
    /\ payload = EmptyPayload
    /\ idx = 0
    /\ stmts = <<>>
    /\ txOpen = FALSE
    /\ txOpened = FALSE
    /\ outcome = "none"
    /\ failedAt = "none"
    /\ pre = rows
    /\ replay = FALSE
    /\ sess = [t \in Threads |-> SessIdle]
    /\ pool = PoolIdle
    /\ connection = NoConnection

NextSessions ==
    \E t \in Threads :
        \/ SessionBegin(t)
        \/ SessionDeleteFiles(t)
        \/ SessionUpsertDelete(t)
        \/ SessionDeleteRun(t)
        \/ SessionInsertBatch(t)
        \/ SessionCommit(t)
        \/ SessionDeadlock(t)

SpecSessions == InitSessions /\ [][NextSessions]_vars

RECURSIVE SerialInsert(_, _, _)
\* The insert loop run from index i on table t with no other session around.
SerialInsert(t, recs, i) ==
    IF i >= Len(recs) THEN [ok |-> TRUE, rows |-> t]
    ELSE IF PkConflict(t, Batch(recs, i)) THEN [ok |-> FALSE, rows |-> t]
    ELSE SerialInsert(InsertRows(t, Batch(recs, i)), recs, i + batch_size)

\* _process_database_transaction run alone on `table` with payload q: the
\* table it leaves and how it ends.
Serial(table, q) ==
    LET t1 == IF q.files_to_delete = {} THEN table ELSE DeleteBySource(table, q.files_to_delete)
        t2 == IF q.chunks_to_upsert = <<>> THEN t1
              ELSE DeleteBySource(t1, source_files_to_update(q.chunks_to_upsert))
        r == SerialInsert(t2, records_to_insert(q.chunks_to_upsert), 0)
    IN IF r.ok THEN [rows |-> r.rows, outcome |-> "success"]
       ELSE [rows |-> table, outcome |-> "IntegrityError"]

(***************************************************************************)
(* Claims about the reconciliation engine.                                 *)
(***************************************************************************)
F == payload.files_to_delete
Chunks == payload.chunks_to_upsert
\* Sources the payload's chunks cover.
S == {Chunks[k].source : k \in 1..Len(Chunks)}
Done == pc = "done"
Committed == Done /\ outcome = "success"
Count(log, x) == Cardinality({k \in 1..Len(log) : log[k] = x})

\* C1: when an insert batch fails, the first or a later one, the table after
\* the call is the table before the call: the explicit deletions, the
\* delete-before-insert deletions and the earlier batches' inserts are all
\* undone, and the transaction is closed.
C1_Atomicity ==
    (Done /\ failedAt = "insert") =>
        /\ rows = pre
        /\ txrows = rows
        /\ ~txOpen
        /\ outcome \in {"IntegrityError", "OperationalError"}

\* A later batch failed after both deletions removed rows and an earlier
\* batch had been inserted.
C1_Witness ==
    /\ Done /\ failedAt = "insert" /\ idx > 0
    /\ Count(stmts, "insert") >= 2
    /\ \E r \in pre : r.source \in F
    /\ \E r \in pre : r.source \in S /\ r.source \notin F
    /\ rows = pre

\* C2: a call that repeats the payload of the committed call before it
\* leaves the row set that call left, never trips over the rows it inserted
\* the first time, and keeps ids unique.
C2_Idempotence ==
    (Done /\ replay) =>
        /\ rows = pre
        /\ outcome # "IntegrityError"
        /\ \A r1, r2 \in rows : r1.id = r2.id => r1 = r2

\* The second run committed rows for a table that held rows before the first.
C2_Witness ==
    /\ Committed /\ replay
    /\ Count(stmts, "delete_upsert") = 1
    /\ Count(stmts, "insert") >= 1
    /\ \E r \in rows : r.content = OldDoc
    /\ \E r \in rows : r.content = "new"
    /\ rows = pre

\* The pattern of the specification: the prefix followed by one or more
\* letters, digits or underscores, and nothing else.
SpecPattern(n) == FullMatch(n)

\* The payload's table_name is syntactically invalid or names no table.  For
\* func.py, whose syntactic rule is its allowlist, invalid means not listed.
NameInvalidOrAbsent ==
    IF variant = "main"
    THEN ~SpecPattern(payload.table_name) \/ payload.table_name \notin ExistingTables
    ELSE payload.table_name \notin ALLOWED_TABLES \/ payload.table_name \notin ExistingTables

NoMutation == Count(stmts, "delete_files") + Count(stmts, "delete_upsert") + Count(stmts, "insert") = 0

\* C3 as stated: an invalid or unknown table name means no delete, no insert,
\* no transaction, and a validation error.
C3_AsStated ==
    (Done /\ NameInvalidOrAbsent) =>
        /\ NoMutation
        /\ ~txOpened
        /\ outcome = "ValueError"

\* C9: a committed call with only files_to_delete removes exactly the rows
\* whose source is listed and leaves every other row as it was.
C9_DeletionIndependence ==
    (Committed /\ Chunks = <<>>) =>
        /\ \A r \in rows : r.source \notin F
        /\ \A r \in pre : r.source \notin F => r \in rows
        /\ rows \subseteq pre

\* files_to_delete = ["a.py"] against a table holding rows of a.py and b.py.
C9_Witness ==
    /\ Committed /\ Chunks = <<>> /\ F = {"a.py"}
    /\ \E r \in pre : r.source = "a.py"
    /\ \E r \in pre : r.source = "b.py"
    /\ rows # pre

\* C10: after a committed call no row of a source in F \ S remains, and for
\* every source of S the rows of that source are exactly the payload's chunks
\* of that source that have a document, one row per chunk id.
C10_PostState ==
    Committed =>
        /\ \A r \in rows : r.source \notin (F \ S)
        /\ \A s \in S :
              LET new == {r \in Range(records_to_insert(Chunks)) : r.source = s}
                  now == {r \in rows : r.source = s}
              IN /\ now = new
                 /\ Cardinality({r.id : r \in now}) = Cardinality(now)
                 /\ Cardinality(now) =
                        Cardinality({k \in 1..Len(Chunks) : Chunks[k].source = s /\ Chunks[k].document # ""})

\* The scenario of the specification with b.py also listed for deletion: old
\* rows of a.py and b.py, a.py deleted, b.py replaced by one new row.
C10_Witness ==
    /\ Committed
    /\ F = {"a.py", "b.py"} /\ S = {"b.py"}
    /\ pre = {Row("1", "a.py", OldDoc), Row("2", "b.py", OldDoc)}
    /\ rows = {Row("1", "b.py", "new")}

\* The records the call selected for insertion, and their number.
Recs == records_to_insert(Chunks)
N == Len(Recs)
CeilDiv(a, b) == (a + b - 1) \div b

Post == DeleteBySource(pre, F \cup S) \cup Range(Recs)
Last(log) == IF log = <<>> THEN "none" ELSE log[Len(log)]

\* C12: a call reports success only after its commit, and then the table
\* holds all of its effects; a call that failed left the table as it found
\* it; the committed table is never anything between the two.
C12_NoPartialCommit ==
    /\ pc # "idle" => (rows = pre \/ (Committed /\ rows = Post))
    /\ (Done /\ outcome = "success") =>
           /\ txOpened
           /\ Last(stmts) = "commit"
           /\ Count(stmts, "rollback") = 0
           /\ rows = Post
    /\ (Done /\ outcome # "success") =>
           /\ rows = pre
           /\ txrows = rows
           /\ ~txOpen

\* The commit itself failed after deletions and inserts had executed.
C12_Witness ==
    /\ Done /\ failedAt = "commit" /\ outcome = "OperationalError"
    /\ Count(stmts, "delete_files") = 1
    /\ Count(stmts, "insert") >= 1
    /\ Post # pre
    /\ rows = pre

\* Place of a statement in the order of the algorithm.
StepRank(x) ==
    CASE x = "catalog" -> 0
      [] x = "begin" -> 1
      [] x = "delete_files" -> 2
      [] x = "delete_upsert" -> 3
      [] x = "insert" -> 4
      [] x = "commit" -> 5
      [] OTHER -> 6

\* C13: the statements of a call follow the order validation, begin,
\* explicit deletion, delete of the upserted sources, insert batches, commit;
\* the transaction is opened only for a table name that passed validation; a
\* call that opened it ends with exactly one of commit and rollback, and a
\* call that did not ends as a failure without any statement on the table.
C13_StepOrder ==
    /\ \A i, j \in 1..Len(stmts) :
           i < j => \/ StepRank(stmts[i]) < StepRank(stmts[j])
                    \/ (stmts[i] = "insert" /\ stmts[j] = "insert")
    /\ txOpened =>
           /\ Accepted(variant, payload.table_name)
           /\ Count(stmts, "begin") = 1
           /\ variant = "main" => (Len(stmts) >= 2 /\ stmts[1] = "catalog" /\ stmts[2] = "begin")
    /\ (Done /\ txOpened) =>
           \/ outcome = "success" /\ Last(stmts) = "commit" /\ Count(stmts, "rollback") = 0
           \/ outcome # "success" /\ Last(stmts) = "rollback" /\ rows = pre
    /\ (Done /\ ~txOpened) =>
           /\ outcome # "success"
           /\ NoMutation
           /\ Count(stmts, "commit") + Count(stmts, "rollback") = 0
           /\ rows = pre

\* A call went through every step once and two insert batches.
C13_Witness ==
    /\ Committed
    /\ stmts = <<"begin", "delete_files", "delete_upsert", "insert", "insert", "commit">>

\* C14 as stated, for calls in which no database statement failed: a valid
\* table name with nothing to upsert and nothing to delete is a no-op that
\* succeeds.
C14_EmptyPayloadNoOp ==
    (Done /\ Accepted(variant, payload.table_name) /\ Chunks = <<>> /\ F = {}
          /\ outcome # "OperationalError") =>
        /\ NoMutation
        /\ rows = pre
        /\ outcome = "success"

\* C15: a chunk without a document is never inserted, and its source is
\* cleared all the same: after a commit, a source whose chunks all lack a
\* document has no row left.
C15_EmptyDocumentStillClears ==
    Committed =>
        /\ \A r \in rows : r.content # ""
        /\ \A k \in 1..Len(Chunks) :
               Chunks[k].document = "" => Row(Chunks[k].id, Chunks[k].source, "") \notin rows
        /\ \A s \in S :
               (\A k \in 1..Len(Chunks) : Chunks[k].source = s => Chunks[k].document = "")
                   => \A r \in rows : r.source # s

\* The only chunk of a.py has no document; the old rows of a.py are gone and
\* nothing was inserted.
C15_Witness ==
    /\ Committed
    /\ Chunks = <<[id |-> "2", document |-> "", source |-> "a.py"]>>
    /\ F = {}
    /\ \E r \in pre : r.source = "a.py"
    /\ \E r \in pre : r.source = "b.py"
    /\ rows = {r \in pre : r.source # "a.py"}
    /\ Count(stmts, "delete_upsert") = 1
    /\ Count(stmts, "insert") = 0

\* C19: an error raised after the transaction was opened and before the
\* commit took effect, a database error or not, ends the call with the
\* transaction rolled back and closed and the table as the call found it.
C19_AnyErrorRollsBack ==
    (Done /\ txOpened /\ outcome # "success") =>
        /\ outcome \in {"OperationalError", "IntegrityError", "KeyError"}
        /\ Last(stmts) = "rollback"
        /\ Count(stmts, "rollback") = 1
        /\ ~txOpen
        /\ txrows = rows
        /\ rows = pre

\* A chunk without metadata.source was met after the explicit deletion had
\* removed rows inside the transaction.
C19_Witness ==
    /\ Done /\ outcome = "KeyError" /\ failedAt = "sources"
    /\ stmts = IF variant = "main"
               THEN <<"catalog", "begin", "delete_files", "rollback">>
               ELSE <<"begin", "delete_files", "rollback">>
    /\ \E r \in pre : r.source \in F
    /\ rows = pre

\* C20: one call opens at most one transaction and executes each step of it
\* at most once; after a rollback the call executes nothing more.
C20_NoTransactionRetry ==
    /\ Count(stmts, "begin") <= 1
    /\ Count(stmts, "delete_files") <= 1
    /\ Count(stmts, "delete_upsert") <= 1
    /\ Count(stmts, "commit") <= 1
    /\ Count(stmts, "rollback") <= 1
    /\ Count(stmts, "rollback") = 1 => (Done /\ Last(stmts) = "rollback")
    /\ Count(stmts, "begin") = 1 <=> txOpened

\* A transient database error in the second insert batch ended the call; the
\* transaction was opened once and not run again.
C20_Witness ==
    /\ Done /\ outcome = "OperationalError" /\ failedAt = "insert"
    /\ Count(stmts, "begin") = 1
    /\ Count(stmts, "insert") = 2
    /\ Last(stmts) = "rollback"

\* What the caller gets for the call as it ended.
Result == Response(variant, outcome)

\* The payload lacks a required field: no table_name, or a chunk without
\* metadata.source.
MissingField == payload.table_name = NameEmpty \/ RaisesKeyError(Chunks)

\* C23 as stated, for the failures of the reconciliation in main.py, whose
\* handlers the claim is about: a failed call is answered with a structured
\* error that has a kind tag and a message, never with status success; an
\* invalid table name or a missing field gives kind validation_error unless
\* the database itself failed first, and a failure that is neither of
\* validation nor of configuration gives an internal error.
C23_StructuredErrors ==
    (variant = "main" /\ Done /\ outcome # "success") =>
        /\ {"status", "type", "message"} \subseteq DOMAIN Result
        /\ Result.status = "error"
        /\ ((NameInvalidOrAbsent \/ MissingField) /\ outcome # "OperationalError")
               => Result.type = "validation_error"
        /\ (~NameInvalidOrAbsent /\ ~MissingField) => Result.type = "internal_server_error"

\* C24 as stated: a payload that lacks a required field fails with a
\* validation error before any delete or insert statement has executed, in
\* one attempt.
C24_MissingFieldFailsFast ==
    (Done /\ MissingField /\ outcome # "OperationalError") =>
        /\ NoMutation
        /\ Count(stmts, "begin") = 0
        /\ outcome = "ValueError"

\* C25 as stated: the result of a committed call has status success and
\* carries a message, the target table and the counts of what was processed.
C25_SuccessResult ==
    Committed =>
        /\ Result.status = "success"
        /\ {"message", "table", "counts"} \subseteq DOMAIN Result

\* Statements that name the target table.
TableStmts == {"delete_files", "delete_upsert", "insert"}

\* C26 as stated: a statement that names the target table executes only
\* after the name passed the syntactic check and then the catalog query found
\* the table, earlier in the same call; the catalog query is not run for a
\* name the syntactic rule rejects.  (In func.py the syntactic rule is taken
\* to be the allowlist.)
C26_TwoPhaseAuthorisation ==
    /\ \A j \in 1..Len(stmts) :
           stmts[j] \in TableStmts =>
               /\ Accepted(variant, payload.table_name)
               /\ CatalogHas(payload.table_name)
               /\ \E i \in 1..(j - 1) : stmts[i] = "catalog"
    /\ (variant = "main" /\ Count(stmts, "catalog") >= 1) => SpecPattern(payload.table_name)

\* The call of main.py got as far as the syntactic check.
SyntaxChecked ==
    variant = "main" /\ Done /\ failedAt \in {"syntax", "catalog", "existence", "validated"}

\* C27 as stated: the syntactic check accepts a name if and only if it is the
\* prefix followed by one or more letters, digits or underscores.
C27_SyntacticCheck ==
    SyntaxChecked => (failedAt # "syntax" <=> SpecPattern(payload.table_name))

\* C28 as stated, as the final result of the call: with a table name that
\* passes both checks, well-formed chunks and no failing database statement,
\* the call ends committed and the invocation answers success.
C28_ReachesCommitted ==
    (Done /\ Accepted(variant, payload.table_name) /\ ~RaisesKeyError(Chunks)
          /\ outcome \notin {"OperationalError", "IntegrityError"}) =>
        /\ outcome = "success"
        /\ Last(stmts) = "commit"
        /\ Result.status = "success"

\* C29: whatever the payload and however the call ends, the rows of sources
\* the payload names neither in files_to_delete nor in a chunk are after the
\* call exactly the rows of those sources before it.
C29_Frame ==
    Done =>
        /\ \A r \in pre : r.source \notin (F \cup S) => r \in rows
        /\ \A r \in rows : r.source \notin (F \cup S) => r \in pre

\* A committed call replaced the rows of a.py with two new rows and deleted
\* nothing else; the rows of b.py are still there.
C29_Witness ==
    /\ Committed
    /\ F = {} /\ S = {"a.py"} /\ N = 2
    /\ \E r \in pre : r.source = "a.py"
    /\ \E r \in pre : r.source = "b.py"
    /\ {r \in rows : r.source = "b.py"} = {r \in pre : r.source = "b.py"}
    /\ rows # pre

(***************************************************************************)
(* Claims about the connection layer.                                      *)
(***************************************************************************)
LoopStages == {"fetch", "decode", "create", "validate"}
\* The call of thread t raised out of the rebuild loop.
LoopRaised(t) == acq[t].pc = "raised" /\ acq[t].stage \in LoopStages

\* C4 as stated: a call that hands back a handle has proven that very handle
\* live itself, by its probe or by its validation query.
C4_ProvenInSameCall ==
    \A t \in Threads :
        acq[t].pc = "returned" => (acq[t].result # 0 /\ acq[t].proven = acq[t].result)

\* C5 as stated: a failed probe, whatever the failure, leads into the rebuild
\* loop, and the call raises only if all three rebuild attempts failed.
C5_ProbeFailureRebuilds ==
    \A t \in Threads :
        (acq[t].probe \notin {"none", "ok"} /\ Resting(t)) =>
            /\ acq[t].fetches >= 1
            /\ (acq[t].pc = "raised" => (acq[t].stage \in LoopStages /\ acq[t].attempt = max_retries - 1))

\* C6: the rebuild loop makes at most 3 attempts; before attempt k + 1 it has
\* slept 2^0 .. 2^(k-1) seconds, one sleep per failed attempt; when it raises
\* it has made the third attempt, slept 1 s and 2 s and no more, and raises
\* the error of the last failure.
C6_BoundedBackoff ==
    \A t \in Threads :
        LET a == acq[t] IN
        /\ a.attempt \in 0..(max_retries - 1)
        /\ a.builds <= a.attempt + 1
        /\ a.fetches <= 2 * (a.attempt + 1)
        /\ (variant = "func" => a.fetches <= a.attempt + 1)
        /\ Len(a.sleeps) = a.attempt
        /\ \A k \in 1..Len(a.sleeps) : a.sleeps[k] = 2 ^ (k - 1)
        /\ LoopRaised(t) =>
              /\ a.attempt = 2
              /\ a.sleeps = <<1, 2>>
              /\ a.err \notin {"none", "HTTP503"}

\* Three engines were built and each failed its validation query.
C6_Witness ==
    /\ LoopRaised(1)
    /\ acq[1].stage = "validate"
    /\ acq[1].builds = 3
    /\ acq[1].sleeps = <<1, 2>>
    /\ acq[1].err = "OperationalError"

\* C7 as stated: when the loop gives up, nothing is cached.
C7_NothingCachedOnFailure ==
    \A t \in Threads : LoopRaised(t) => db_engine = 0

\* C8 as stated: a secret that cannot be decoded, parsed or validated ends
\* the call at once with a configuration error: no sleep, no further attempt.
C8_MalformedSecretNotRetried ==
    \A t \in Threads :
        (acq[t].stage = "decode" /\ acq[t].pc # "idle") =>
            /\ acq[t].pc = "raised"
            /\ acq[t].err = "ConfigurationError"

\* C16 as stated, its first part: under every interleaving of concurrent
\* _get_db_engine calls, a call that returns hands back the handle that this
\* very call probed or validated.
C16_ReturnsOwnHandle ==
    \A t \in Threads :
        acq[t].pc = "returned" => (acq[t].result # 0 /\ acq[t].result = acq[t].proven)

\* C30: a call whose probe of the cached handle succeeded contacts no secret
\* store, builds no engine and sleeps no backoff; it returns the handle it
\* probed, and that handle is still the cached one.
C30_ProbeSuccessFrame ==
    \A t \in Threads :
        acq[t].probe = "ok" =>
            /\ acq[t].pc \in {"return", "returned"}
            /\ acq[t].proven # 0
            /\ db_engine = acq[t].proven
            /\ acq[t].fetches = 0
            /\ acq[t].builds = 0
            /\ acq[t].attempt = 0
            /\ acq[t].sleeps = <<>>
            /\ acq[t].secret = "none"
            /\ acq[t].pc = "returned" => acq[t].result = acq[t].proven

\* The second call of the process found the engine the first call had built
\* and validated, probed it and returned it; no other engine exists.
C30_Witness ==
    /\ acq[1].pc = "returned"
    /\ acq[1].probe = "ok"
    /\ calls = 2
    /\ engines = 1
    /\ acq[1].result = 1
    /\ db_engine = 1
    /\ validated = {1}

\* C21 as stated: the connections checked out at the same time across the
\* process never exceed the pool bound, pool_size + max_overflow.
C21_PoolBound == InUse <= pool_size + max_overflow

\* How often engine e has been disposed.
Disposals(e) == Cardinality({k \in 1..Len(pool.disposed) : pool.disposed[k] = e})

\* C22 as stated: no engine is disposed more than once, and when the process
\* has shut down every engine built during its lifetime has been disposed.
C22_ShutdownDisposes ==
    /\ \A e \in EngineIds : Disposals(e) <= 1
    /\ pool.down => \A e \in 1..engines : Disposals(e) = 1

(***************************************************************************)
(* Claims about reconciliations that run at the same time.                 *)
(***************************************************************************)
P1 == sess[1].payload
P2 == sess[2].payload
UpsertedSources(q) == source_files_to_update(q.chunks_to_upsert)
\* Every source a payload names.
TouchedSources(q) == q.files_to_delete \cup UpsertedSources(q)
ChunkIds(q) == {q.chunks_to_upsert[k].id : k \in 1..Len(q.chunks_to_upsert)}
RecordsOf(q, s) == {r \in Range(records_to_insert(q.chunks_to_upsert)) : r.source = s}
BothDone == sess[1].pc = "done" /\ sess[2].pc = "done"
BothCommitted == BothDone /\ sess[1].outcome = "success" /\ sess[2].outcome = "success"

\* C17 as stated: when two reconciliations of the same source both commit,
\* the rows of that source are afterwards those of exactly one of the two
\* payloads.
C17_OneGeneration ==
    BothCommitted =>
        \A s \in UpsertedSources(P1) \cap UpsertedSources(P2) :
            LET now == {r \in rows : r.source = s}
            IN now = RecordsOf(P1, s) \/ now = RecordsOf(P2, s)

Disjoint == TouchedSources(P1) \cap TouchedSources(P2) = {}

\* The two calls run one after the other on the table `pre`, in both orders.
First1 == Serial(pre, P1)
Then2 == Serial(First1.rows, P2)
First2 == Serial(pre, P2)
Then1 == Serial(First2.rows, P1)

\* Outcomes and table are those of both serial orders.
AsBothSerialOrders ==
    /\ rows = Then2.rows
    /\ rows = Then1.rows
    /\ sess[1].outcome = First1.outcome
    /\ sess[1].outcome = Then1.outcome
    /\ sess[2].outcome = First2.outcome
    /\ sess[2].outcome = Then2.outcome

\* C18 as stated: two reconciliations whose payloads name disjoint sets of
\* sources end, under every interleaving, as they would run one after the
\* other in either order.
C18_AsStated == (BothDone /\ Disjoint) => AsBothSerialOrders

\* No chunk id of one payload is a chunk id of the other or the id of a row
\* of a source the other payload names.
IdsApart ==
    /\ ChunkIds(P1) \cap ChunkIds(P2) = {}
    /\ \A r \in pre :
           /\ r.id \in ChunkIds(P1) => r.source \notin TouchedSources(P2)
           /\ r.id \in ChunkIds(P2) => r.source \notin TouchedSources(P1)

\* C18: two reconciliations whose payloads name disjoint sets of sources, and
\* share no row id through their chunks or through a row the other one
\* deletes, end under every interleaving as they would run one after the
\* other in either order; neither waits for the other into a deadlock.
C18_DisjointIndependent ==
    (BothDone /\ Disjoint /\ IdsApart) =>
        /\ AsBothSerialOrders
        /\ sess[1].outcome # "OperationalError"
        /\ sess[2].outcome # "OperationalError"

\* The second call began while the first was in flight; one replaced the
\* rows of a.py, the other deleted b.py and both committed.
C18_Witness ==
    /\ BothCommitted /\ Disjoint /\ IdsApart
    /\ sess[2].overlap
    /\ UpsertedSources(P1) = {"a.py"} /\ P2.files_to_delete = {"b.py"}
    /\ \E r \in pre : r.source = "a.py"
    /\ \E r \in pre : r.source = "b.py"
    /\ \A r \in rows : r.source = "a.py" /\ r.content = "new"

(***************************************************************************)
(* The reconciliation's connection.                                        *)
(***************************************************************************)
\* The steps of a call that run inside the with block of engine.connect().
InsideConnect ==
    pc \in {"validate", "begin", "delete_files", "delete_files_run", "upsert", "insert", "commit"}

\* The places a call can end at before engine.connect() handed it a connection.
BeforeConnect == {"table_name", "connect"}

\* C31: one reconcile call checks out one connection, never a second, and
\* holds it exactly while it is inside the with block of engine.connect():
\* whichever way the call ends (commit, rollback after a database error, an
\* error that is not a database error, a failed table validation) the
\* connection is back in the pool, so that no connection is checked out
\* between calls; a call that ended before engine.connect() returned has
\* checked out none.
C31_ConnectionReturned ==
    /\ connection.out \in {0, 1}
    /\ connection.taken \in {0, 1}
    /\ InsideConnect <=> connection.out = 1
    /\ InsideConnect => connection.taken = 1
    /\ pc \in {"idle", "check", "connect"} => connection.taken = 0
    /\ Done => /\ connection.out = 0
               /\ connection.taken = 1 <=> failedAt \notin BeforeConnect

\* A call that began its transaction ended with an error that is not a
\* database error, and its one connection is back in the pool.
C31_Witness ==
    /\ Done
    /\ outcome = "KeyError"
    /\ txOpened
    /\ connection = [out |-> 0, taken |-> 1]

(***************************************************************************)
(* Unique row ids.                                                         *)
(***************************************************************************)
\* No two rows of table t have the same id.
UniqueIds(t) == \A r1, r2 \in t : r1.id = r2.id => r1 = r2

\* Two entries of list s have the same id, or an entry has the id of a row the
\* call found in the table under a source the payload does not touch.
IdClash(s) ==
    \/ \E k, l \in 1..Len(s) : k # l /\ s[k].id = s[l].id
    \/ \E k \in 1..Len(s) : \E r \in pre : r.id = s[k].id /\ r.source \notin F \cup S

\* C32 as stated: the ids of the payload's chunks decide, with or without a
\* document.
C32_AsStated ==
    /\ UniqueIds(rows)
    /\ Done /\ IdClash(Chunks) => outcome # "success" /\ rows = pre

\* C32: the committed table never holds two rows of one id; a call in which
\* two chunks that carry a document have the same id, or a chunk that carries
\* a document has the id of an existing row of a source the payload does not
\* touch, does not commit: it ends with an error, which is what its caller
\* gets, and the table is what it was before the call, rows of the sources in
\* files_to_delete included.
C32_UniqueIds ==
    /\ UniqueIds(rows)
    /\ Done /\ IdClash(Recs) =>
           /\ outcome # "success"
           /\ Result # SuccessResult
           /\ rows = pre

\* A call deleted the rows of a listed source, then met the id of a row it did
\* not delete; the insert was refused and the deleted rows are back.
C32_Witness ==
    /\ Done
    /\ IdClash(Recs)
    /\ outcome = "IntegrityError"
    /\ Count(stmts, "delete_files") = 1
    /\ \E r \in pre : r.source \in F
    /\ \E k \in 1..N : \E r \in pre : r.id = Recs[k].id /\ r.source \notin F \cup S
    /\ rows = pre

(***************************************************************************)
(* The HTTP variant before its handle is set.                              *)
(***************************************************************************)
\* C33: in main.py, while db_engine is None the dependency get_db_engine
\* answers every invocation with 503: the invocation is handed no engine, so
\* the handler's body (the download, the transaction) does not run and no
\* connection is checked out; an invocation that is handed an engine is
\* handed the cached one; and the engine in the cache is one whose validation
\* query succeeded.
C33_UninitialisedRejects ==
    variant = "main" =>
        /\ db_engine # 0 => db_engine \in validated
        /\ InUse > 0 => db_engine # 0
        /\ acq[1].err = "HTTP503" =>
               /\ acq[1].pc = "raised"
               /\ acq[1].stage = "get_db_engine"
               /\ acq[1].result = 0
               /\ db_engine = 0
               /\ InUse = 0
               /\ pc = "idle"
        /\ acq[1].stage = "get_db_engine" /\ acq[1].pc = "returned" =>
               /\ db_engine # 0
               /\ acq[1].result = db_engine

\* The process serves without a handle; its second invocation was rejected
\* like the first.
C33_Witness ==
    /\ variant = "main"
    /\ db_engine = 0
    /\ calls = 2
    /\ acq[1].pc = "raised"
    /\ acq[1].err = "HTTP503"
    /\ InUse = 0

====
